---- MODULE Spec2Model ----
(***************************************************************************)
(* Football Match Insights (src/app.py): the match table loaded at module  *)
(* import and the Dash callbacks that aggregate over it.                   *)
(*                                                                         *)
(* Percentages are exact rationals [num, den] (value num/den); Python's    *)
(* float rounding is not modelled.  A rational with den = 0 stands for a   *)
(* division Python would refuse with ZeroDivisionError.                    *)
(***************************************************************************)
EXTENDS Integers, Sequences, FiniteSets, TLC

VARIABLES
    phase,          \* "start" before the module-level load has run, then "serving",
                    \* or "stopped" when the load ended the process
    match_file,     \* international_matches.csv: "ok", "missing" or "unreadable"
    raw,            \* rows of international_matches.csv as read by pd.read_csv
    ranking_file,   \* fifa_ranking-2024-06-20.csv: "ok" or "missing"
    raw_ranking,    \* rows of fifa_ranking-2024-06-20.csv as read by pd.read_csv
    df,             \* the module-level DataFrame after preprocessing
    df_ranking,     \* the module-level ranking DataFrame
    all_teams,      \* sorted unique team names of df
    all_tournaments,\* sorted unique tournaments of df
    h2h_args,       \* (team1, team2) of the last update_h2h_graph invocation
    h2h_out,        \* its return value and the locals it computed
    wr_arg,         \* selected_country of the last update_win_rate_graph invocation
    wr_out,         \* its return value and the tables it computed
    ha_arg,         \* selected_option of the last update_home_away_graph invocation
    ha_out,         \* its return value and the locals it computed
    gt_args,        \* (trigger_id, selected_tournament_dropdown, win_rate_clickData,
                    \* selected_country_v1, selected_country_v3) of the last
                    \* update_goal_trends_graph invocation
    gt_out,         \* its return value and the locals it computed
    rk_args,        \* (selected_year, selected_country_v1, selected_country_v3) of
                    \* the last update_top_3_ranking invocation
    rk_out,         \* its return value and the locals it computed
    value,          \* the 'value' property of each of the five dropdowns
    options,        \* the option values of each of the five dropdowns
    pending,        \* selector callbacks requested by a changed Input, not yet run
    inflight,       \* selector callbacks that have run on the arguments read at
                    \* their request and whose outputs are not yet applied
    user_change,    \* (dropdown, value) of the user's selection whose cascade of
                    \* callbacks is running
    before,         \* the dropdowns' values at that selection
    selections      \* the number of selections the user has made

(* The files read at import, the tables built from them, and the last      *)
(* invocation of each callback.                                            *)
source == <<match_file, raw, ranking_file, raw_ranking>>
repository == <<df, df_ranking, all_teams, all_tournaments>>
h2h_view == <<h2h_args, h2h_out>>
wr_view == <<wr_arg, wr_out>>
ha_view == <<ha_arg, ha_out>>
gt_view == <<gt_args, gt_out>>
rk_view == <<rk_args, rk_out>>
selectors == <<value, options, pending, inflight, user_change, before, selections>>

vars == <<phase, source, repository, h2h_view, wr_view, ha_view, gt_view, rk_view,
          selectors>>

-----------------------------------------------------------------------------
(* Bounds of the explored tables.                                          *)
MaxRows == 3        \* rows of a table of the general specification
MaxFormRows == 6    \* rows of a table of the recent-form specification
MaxWRRows == 2      \* rows of a table of the win-rate specification
MaxSelRows == 2     \* rows of a table of the selector specification
MaxSelections == 2  \* selections the user makes in the selector specification
MaxLiveSelections == 3  \* selections the user makes in the liveness specification

-----------------------------------------------------------------------------
(* Values.                                                                 *)
NaN == "NaN"        \* pandas' missing value in a string column
NaT == 0            \* pd.to_datetime(errors='coerce') of an unparseable date
NoValue == ""       \* a dropdown without a selection (None or '')

Teams == {"A", "B", "Draw"}
DropdownValues == Teams \cup {NoValue}
Tournaments == {"Friendly", "Cup"}

(* sorted() on the names above *)
TeamOrder == <<"A", "B", "Draw">>
TournamentOrder == <<"Cup", "Friendly">>

(* The ids of the five dropdowns. *)
CountryDropdownV1 == "country-dropdown-v1"
TournamentDropdown == "tournament-dropdown-v2"
CountryDropdownV3 == "country-dropdown-v3"
Team1Dropdown == "team1-dropdown-v4"
Team2Dropdown == "team2-dropdown-v4"
Dropdowns == {CountryDropdownV1, TournamentDropdown, CountryDropdownV3,
              Team1Dropdown, Team2Dropdown}

NoValues == [id \in Dropdowns |-> NoValue]
NoChange == <<NoValue, NoValue>>

(* The option of country-dropdown-v3 that stands for all teams. *)
Overall == "Overall"

(* The layout's hard-coded initial selections 'Brazil' and 'Argentina'. *)
Brazil == "A"
Argentina == "B"

(* A parsed date is the number yyyymmdd; Series.dt.year is its year. *)
Year(date) == date \div 10000

(* Cells of the ranking file's 'rank' column: a positive number, an empty  *)
(* cell (NaN), or a text that is no number, such as '-'.  With such a text *)
(* in it the column is read as text, where '-' sorts before every digit.   *)
NoRank == 0
TextRank == -1
NoYear == 0         \* the year dropdown without a selection (None)

-----------------------------------------------------------------------------
(* Sequence helpers.                                                       *)
RECURSIVE SumSeq(_)
SumSeq(s) == IF s = <<>> THEN 0 ELSE Head(s) + SumSeq(Tail(s))

Head5(s) == IF Len(s) <= 5 THEN s ELSE SubSeq(s, 1, 5)

Min(a, b) == IF a <= b THEN a ELSE b

(* DataFrame.sort_values('Date', ascending=False): the row with the latest *)
(* date first.  The explored tables hold pairwise distinct dates.          *)
RECURSIVE SortDateDesc(_)
SortDateDesc(s) ==
    IF s = <<>> THEN <<>>
    ELSE LET i == CHOOSE j \in 1..Len(s) :
                     \A k \in 1..Len(s) :
                         \/ s[k].Date < s[j].Date
                         \/ (s[k].Date = s[j].Date /\ j <= k)
             rest == [k \in 1..(Len(s) - 1) |-> IF k < i THEN s[k] ELSE s[k + 1]]
         IN  <<s[i]>> \o SortDateDesc(rest)

-----------------------------------------------------------------------------
(* Rationals.                                                              *)
Ratio(n, d) == [num |-> n, den |-> d]
Zero == Ratio(0, 1)
(* x / total * 100 *)
Pct(x, total) == Ratio(x * 100, total)
(* a == n/d, a <= n/d, a >= n/d for den > 0 *)
RatEq(a, n, d) == a.num * d = n * a.den
RatLe(a, n, d) == a.num * d <= n * a.den
RatGe(a, n, d) == a.num * d >= n * a.den

-----------------------------------------------------------------------------
(* 1. Data loading and preprocessing (module level).                       *)

Winner(row) ==
    IF row.HomeGoals > row.AwayGoals THEN row.HomeTeam
    ELSE IF row.AwayGoals > row.HomeGoals THEN row.AwayTeam
    ELSE "Draw"

Preprocess(row) ==
    [Date |-> row.Date,
     HomeTeam |-> row.HomeTeam, AwayTeam |-> row.AwayTeam,
     HomeGoals |-> row.HomeGoals, AwayGoals |-> row.AwayGoals,
     Tournament |-> row.Tournament,
     WinningTeam |-> row.WinningTeam, LosingTeam |-> row.LosingTeam,
     IsDraw |-> (row.WinningTeam = NaN /\ row.LosingTeam = NaN),
     Winner |-> Winner(row),
     IsHomeWin |-> (Winner(row) = row.HomeTeam),
     IsAwayWin |-> (Winner(row) = row.AwayTeam)]

DropNaT(rows) == SelectSeq(rows, LAMBDA r : r.Date # NaT)

LoadDf(rows) ==
    LET kept == DropNaT(rows)
    IN  [i \in 1..Len(kept) |-> Preprocess(kept[i])]

(* df_ranking after lines 38-47: the rows whose date, rank and country are *)
(* present, with their year; the empty frame when the file is missing.     *)
LoadRanking(file, rows) ==
    IF file = "missing" THEN <<>>
    ELSE LET kept == SelectSeq(rows, LAMBDA r : /\ r.rank_date # NaT
                                                /\ r.rank # NoRank
                                                /\ r.country_full # NaN)
         IN  [i \in 1..Len(kept) |->
                 [rank_date |-> kept[i].rank_date, rank |-> kept[i].rank,
                  country_full |-> kept[i].country_full,
                  year |-> Year(kept[i].rank_date)]]

(* sorted(...unique()) *)
SortedUnique(order, values) == SelectSeq(order, LAMBDA x : x \in values)

AllTeams(d) ==
    SortedUnique(TeamOrder, {d[i].HomeTeam : i \in 1..Len(d)}
                            \cup {d[i].AwayTeam : i \in 1..Len(d)})

AllTournaments(d) ==
    SortedUnique(TournamentOrder, {d[i].Tournament : i \in 1..Len(d)})

(* Mutant: a missing ranking file ends the process like a missing match    *)
(* file does.                                                              *)
StartPhase_RankingFatal(mfile, rfile) ==
    IF mfile = "ok" /\ rfile = "ok" THEN "serving" ELSE "stopped"

(* Whether the import gets past the two reads: FileNotFoundError of the    *)
(* match file calls exit(), any other failure to read it is not caught and *)
(* ends the import; FileNotFoundError of the ranking file is caught.       *)
StartPhase(mfile, rfile) ==
    IF mfile = "ok" THEN "serving" ELSE "stopped"

(* The dropdowns of app.layout (lines 103-155): their initial values and   *)
(* option values.                                                          *)
LayoutValue ==
    [id \in Dropdowns |->
        CASE id = CountryDropdownV1 -> Brazil
          [] id = TournamentDropdown -> "All"
          [] id = CountryDropdownV3 -> Overall
          [] id = Team1Dropdown -> Brazil
          [] id = Team2Dropdown -> Argentina]

LayoutOptions(teams, tournaments) ==
    [id \in Dropdowns |->
        CASE id = TournamentDropdown -> <<"All">> \o tournaments
          [] id = CountryDropdownV3 -> <<Overall>> \o teams
          [] OTHER -> teams]

Load ==
    /\ phase = "start"
    /\ phase' = StartPhase(match_file, ranking_file)
    /\ IF phase' = "serving"
       THEN /\ df' = LoadDf(raw)
            /\ df_ranking' = LoadRanking(ranking_file, raw_ranking)
            /\ all_teams' = AllTeams(df')
            /\ all_tournaments' = AllTournaments(df')
            /\ value' = LayoutValue
            /\ options' = LayoutOptions(all_teams', all_tournaments')
       ELSE UNCHANGED <<repository, value, options>>
    /\ UNCHANGED <<source, h2h_view, wr_view, ha_view, gt_view, rk_view,
                   pending, inflight, user_change, before, selections>>

-----------------------------------------------------------------------------
(* Rows of the source table.                                               *)

(* 'Winning Team' / 'Losing Team' of a row: "consistent" names the sides   *)
(* the goals decide and leaves both empty on equal goals; "inconsistent"   *)
(* does the opposite.                                                      *)
WinningCol(home, away, hg, ag, cols) ==
    IF (cols = "consistent") = (hg = ag) THEN NaN
    ELSE IF ag > hg THEN away ELSE home

LosingCol(home, away, hg, ag, cols) ==
    IF (cols = "consistent") = (hg = ag) THEN NaN
    ELSE IF ag > hg THEN home ELSE away

(* k = <<home, away, home goals, away goals, tournament, cols>> *)
MkRow(date, k) ==
    [Date |-> date,
     HomeTeam |-> k[1], AwayTeam |-> k[2],
     HomeGoals |-> k[3], AwayGoals |-> k[4],
     Tournament |-> k[5],
     WinningTeam |-> WinningCol(k[1], k[2], k[3], k[4], k[6]),
     LosingTeam |-> LosingCol(k[1], k[2], k[3], k[4], k[6])]

(* The date of row i of n: input order oldest first, newest first, or      *)
(* oldest first with an unparseable date in the first row.                 *)
DateOf(pattern, i, n) ==
    CASE pattern = "asc" -> i
      [] pattern = "desc" -> n + 1 - i
      [] pattern = "nat1" -> IF i = 1 THEN NaT ELSE i

(* <<home, away, home goals, away goals>> of the general specification:    *)
(* A and B meet in both orientations, A and a team named 'Draw' too, B and *)
(* 'Draw' never; goalless and decided results, with and without a clean    *)
(* sheet, under and over 2.5 goals.                                        *)
RichMatches ==
    {<<"A", "B", 0, 0>>, <<"A", "B", 1, 0>>, <<"A", "B", 0, 1>>, <<"A", "B", 2, 1>>,
     <<"B", "A", 1, 0>>, <<"B", "A", 0, 1>>, <<"B", "A", 2, 1>>,
     <<"Draw", "A", 0, 0>>, <<"Draw", "A", 1, 0>>,
     <<"A", "Draw", 1, 0>>}
RichKinds == {<<m[1], m[2], m[3], m[4], "Cup", "consistent">> : m \in RichMatches}

FormPairs == {<<"A", "B">>, <<"A", "Draw">>}
FormKinds(x, y) ==
    {<<x, y, 1, 0, "Cup", "consistent">>,
     <<x, y, 0, 0, "Cup", "consistent">>,
     <<y, x, 1, 0, "Cup", "consistent">>}

WRFixtures == {<<"A", "B">>, <<"B", "A">>, <<"Draw", "B">>}
WRScores == {<<0, 0>>, <<1, 0>>, <<0, 1>>}
WRKinds ==
    {<<f[1], f[2], s[1], s[2], t, c>> :
        f \in WRFixtures, s \in WRScores, t \in Tournaments,
        c \in {"consistent", "inconsistent"}}

-----------------------------------------------------------------------------
(* Visualization 4: head-to-head.                                          *)

(* Mutant: only the orientation team1 at home is selected. *)
H2HFilter_OneWay(d, team1, team2) ==
    SelectSeq(d, LAMBDA r : r.HomeTeam = team1 /\ r.AwayTeam = team2)

H2HFilter(d, team1, team2) ==
    SelectSeq(d, LAMBDA r : \/ (r.HomeTeam = team1 /\ r.AwayTeam = team2)
                            \/ (r.HomeTeam = team2 /\ r.AwayTeam = team1))

(* Mutant: the weights in ascending order. *)
weights_Ascending == <<1, 2, 3, 4, 5>>

weights == <<5, 4, 3, 2, 1>>
(* Mutant: the maximum leaves out the first weight. *)
max_points_Short == SumSeq(Tail(<<5, 4, 3, 2, 1>>))

max_points == SumSeq(weights)

(* Mutant: a match won by neither selected team credits team1 only. *)
RECURSIVE RecentPoints2_Team1Only(_, _, _, _, _)
RecentPoints2_Team1Only(recent, i, team, team1, team2) ==
    IF i > Len(recent) THEN 0
    ELSE LET w == recent[i].Winner
             pts == IF w = team1 THEN (IF team = team1 THEN 2 * weights[i] ELSE 0)
                    ELSE IF w = team2 THEN (IF team = team2 THEN 2 * weights[i] ELSE 0)
                    ELSE IF team = team1 THEN weights[i] ELSE 0
         IN  pts + RecentPoints2_Team1Only(recent, i + 1, team, team1, team2)

(* Mutant: a match won by neither selected team credits nobody. *)
RECURSIVE RecentPoints2_WinsOnly(_, _, _, _, _)
RecentPoints2_WinsOnly(recent, i, team, team1, team2) ==
    IF i > Len(recent) THEN 0
    ELSE LET w == recent[i].Winner
             pts == IF w = team1 THEN (IF team = team1 THEN 2 * weights[i] ELSE 0)
                    ELSE IF w = team2 THEN (IF team = team2 THEN 2 * weights[i] ELSE 0)
                    ELSE 0
         IN  pts + RecentPoints2_WinsOnly(recent, i + 1, team, team1, team2)

(* Twice the points the loop of lines 798-805 gives `team` over the rows   *)
(* of recent_matches (twice, so that half points stay integers).           *)
RECURSIVE RecentPoints2(_, _, _, _, _)
RecentPoints2(recent, i, team, team1, team2) ==
    IF i > Len(recent) THEN 0
    ELSE LET w == recent[i].Winner
             pts == IF w = team1 THEN (IF team = team1 THEN 2 * weights[i] ELSE 0)
                    ELSE IF w = team2 THEN (IF team = team2 THEN 2 * weights[i] ELSE 0)
                    ELSE weights[i]
         IN  pts + RecentPoints2(recent, i + 1, team, team1, team2)

(* Mutant: only wins as home side are counted. *)
WinsOf_HomeOnly(h2h, team) ==
    Len(SelectSeq(h2h, LAMBDA r : r.Winner = team /\ r.HomeTeam = team))

WinsOf(h2h, team) == Len(SelectSeq(h2h, LAMBDA r : r.Winner = team))

HomeRows(h2h, team) == SelectSeq(h2h, LAMBDA r : r.HomeTeam = team)

WinRate(h2h, team) ==
    IF Len(h2h) > 0 THEN Pct(WinsOf(h2h, team), Len(h2h)) ELSE Zero

HomeWinRate(h2h, team) ==
    LET team_home == HomeRows(h2h, team)
    IN  IF Len(team_home) > 0
        THEN Pct(Len(SelectSeq(team_home, LAMBDA r : r.Winner = team)), Len(team_home))
        ELSE Zero

(* Mutant: the team's own goals are tested instead of the opponent's. *)
CleanSheetCount_OwnGoals(h2h, team) ==
    Len(SelectSeq(SelectSeq(h2h, LAMBDA r : r.HomeTeam = team), LAMBDA r : r.HomeGoals = 0))
    + Len(SelectSeq(h2h, LAMBDA r : r.AwayTeam = team /\ r.AwayGoals = 0))

CleanSheetCount(h2h, team) ==
    Len(SelectSeq(HomeRows(h2h, team), LAMBDA r : r.AwayGoals = 0))
    + Len(SelectSeq(h2h, LAMBDA r : r.AwayTeam = team /\ r.HomeGoals = 0))

CleanSheets(h2h, team) ==
    IF Len(h2h) > 0 THEN Pct(CleanSheetCount(h2h, team), Len(h2h)) ELSE Zero

(* Mutant: the first five rows in table order, unsorted. *)
RecentMatches_Unsorted(h2h) == Head5(h2h)

RecentMatches(h2h) == Head5(SortDateDesc(h2h))

RecentForm(recent, team, team1, team2) ==
    Ratio(RecentPoints2(recent, 1, team, team1, team2) * 100, 2 * max_points)

GoalsOf(h2h, team) ==
    LET team_home == HomeRows(h2h, team)
        team_away == SelectSeq(h2h, LAMBDA r : r.AwayTeam = team)
    IN  SumSeq([i \in 1..Len(team_home) |-> team_home[i].HomeGoals])
        + SumSeq([i \in 1..Len(team_away) |-> team_away[i].AwayGoals])

AvgGoals(h2h, goals) ==
    IF Len(h2h) > 0 THEN Ratio(goals, Len(h2h)) ELSE Zero

(* (Home Goals + Away Goals) > 2.5 on integer goals *)
HighScoring(h2h) == Len(SelectSeq(h2h, LAMBDA r : 2 * (r.HomeGoals + r.AwayGoals) > 5))

HighScoringPct(h2h) ==
    IF Len(h2h) > 0 THEN Pct(HighScoring(h2h), Len(h2h)) ELSE Zero

TeamStats(h2h, recent, team, team1, team2) ==
    [WinRate |-> WinRate(h2h, team),
     HomeWinRate |-> HomeWinRate(h2h, team),
     CleanSheets |-> CleanSheets(h2h, team),
     RecentForm |-> RecentForm(recent, team, team1, team2)]

(* go.Scatterpolar(r=..., theta=closed_categories, name=team) *)
RadarTrace(team, stats) ==
    [type |-> "scatterpolar", name |-> team,
     r |-> <<stats.WinRate, stats.HomeWinRate, stats.CleanSheets,
             stats.RecentForm, stats.WinRate>>]

(* The links of the figure's flow (Sankey) traces. *)
FlowEdges(out) ==
    {out.traces[k] : k \in {j \in 1..Len(out.traces) : out.traces[j].type = "sankey"}}

DisplayRow(r) ==
    [Date |-> r.Date, HomeTeam |-> r.HomeTeam, HomeGoals |-> r.HomeGoals,
     AwayGoals |-> r.AwayGoals, AwayTeam |-> r.AwayTeam,
     Tournament |-> r.Tournament]

(* Every quotient the computation evaluates. *)
H2HQuotients(s1, s2, a1, a2, at, hs) ==
    {s1.WinRate, s1.HomeWinRate, s1.CleanSheets, s1.RecentForm,
     s2.WinRate, s2.HomeWinRate, s2.CleanSheets, s2.RecentForm,
     a1, a2, at, hs}

H2HResult(d, team1, team2) ==
    IF team1 = NoValue \/ team2 = NoValue \/ team1 = team2
    THEN [kind |-> "select_two", text |-> "Please select two different teams.",
          has_kpis |-> FALSE, has_table |-> FALSE]
    ELSE LET h2h_df_full == H2HFilter(d, team1, team2)
         IN  IF h2h_df_full = <<>>
             THEN [kind |-> "no_history", text |-> "No match history found",
                   has_kpis |-> TRUE, has_table |-> FALSE]
             ELSE LET recent_matches == RecentMatches(h2h_df_full)
                      s1 == TeamStats(h2h_df_full, recent_matches, team1, team1, team2)
                      s2 == TeamStats(h2h_df_full, recent_matches, team2, team1, team2)
                      g1 == GoalsOf(h2h_df_full, team1)
                      g2 == GoalsOf(h2h_df_full, team2)
                      a1 == AvgGoals(h2h_df_full, g1)
                      a2 == AvgGoals(h2h_df_full, g2)
                      at == AvgGoals(h2h_df_full, g1 + g2)
                      hs == HighScoringPct(h2h_df_full)
                  IN  IF \E q \in H2HQuotients(s1, s2, a1, a2, at, hs) : q.den = 0
                      THEN [kind |-> "ZeroDivisionError",
                            has_kpis |-> FALSE, has_table |-> FALSE]
                      ELSE [kind |-> "ok", has_kpis |-> TRUE, has_table |-> TRUE,
                            team1_wins |-> WinsOf(h2h_df_full, team1),
                            team2_wins |-> WinsOf(h2h_df_full, team2),
                            draws |-> WinsOf(h2h_df_full, "Draw"),
                            total_matches_h2h |-> Len(h2h_df_full),
                            team1_stats |-> s1,
                            team2_stats |-> s2,
                            team1_avg_goals |-> a1,
                            team2_avg_goals |-> a2,
                            traces |-> <<RadarTrace(team1, s1), RadarTrace(team2, s2)>>,
                            avg_goals_per_match |-> at,
                            perc_over_2_5 |-> hs,
                            table |-> [i \in 1..Len(recent_matches) |->
                                         DisplayRow(recent_matches[i])]]

(* Mutant: the 'Total Goals' column of line 1000 is added to df itself. *)
update_h2h_graph_InPlace(team1, team2) ==
    /\ phase = "serving"
    /\ h2h_args' = <<team1, team2>>
    /\ h2h_out' = H2HResult(df, team1, team2)
    /\ df' = [i \in 1..Len(df) |->
                 df[i] @@ [TotalGoals |-> df[i].HomeGoals + df[i].AwayGoals]]
    /\ UNCHANGED <<phase, source, df_ranking, all_teams, all_tournaments,
                   wr_view, ha_view, gt_view, rk_view, selectors>>

update_h2h_graph(team1, team2) ==
    /\ phase = "serving"
    /\ h2h_args' = <<team1, team2>>
    /\ h2h_out' = H2HResult(df, team1, team2)
    /\ UNCHANGED <<phase, source, repository, selectors,
                   wr_view, ha_view, gt_view, rk_view>>

-----------------------------------------------------------------------------
(* Visualization 1: win rate by tournament.                                *)

CountryFilter(d, selected_country) ==
    SelectSeq(d, LAMBDA r : r.HomeTeam = selected_country
                            \/ r.AwayTeam = selected_country)

(* Mutant: the final else branch is missing, a defeat gets no label. *)
get_result_NoElse(row, selected_country) ==
    IF row.IsDraw THEN "Draw"
    ELSE IF \/ (row.HomeTeam = selected_country /\ row.IsHomeWin)
            \/ (row.AwayTeam = selected_country /\ row.IsAwayWin)
         THEN "Win"
         ELSE NaN

get_result(row, selected_country) ==
    IF row.IsDraw THEN "Draw"
    ELSE IF \/ (row.HomeTeam = selected_country /\ row.IsHomeWin)
            \/ (row.AwayTeam = selected_country /\ row.IsAwayWin)
         THEN "Win"
         ELSE "Loss"

(* country_df.groupby(['Tournament', 'Result']).size().unstack(fill_value=0) *)
(* with the three result columns ensured: one row per tournament present.   *)
ResultCounts(country_df, selected_country) ==
    LET tours == {country_df[i].Tournament : i \in 1..Len(country_df)}
        n(t, res) == Len(SelectSeq(country_df,
                           LAMBDA r : r.Tournament = t
                                      /\ get_result(r, selected_country) = res))
    IN  [t \in tours |-> [Win |-> n(t, "Win"), Draw |-> n(t, "Draw"),
                          Loss |-> n(t, "Loss")]]

RowSum(c) == c.Win + c.Draw + c.Loss

(* results_by_tournament_counts[valid_rows].apply(lambda x: x * 100 / x.sum()) *)
ResultPerc(counts) ==
    LET valid == {t \in DOMAIN counts : RowSum(counts[t]) > 0}
    IN  [t \in valid |-> [Win |-> Pct(counts[t].Win, RowSum(counts[t])),
                          Draw |-> Pct(counts[t].Draw, RowSum(counts[t])),
                          Loss |-> Pct(counts[t].Loss, RowSum(counts[t]))]]

WinRateResult(d, selected_country) ==
    IF selected_country = NoValue
    THEN [kind |-> "select", text |-> "Please select a country."]
    ELSE LET country_df == CountryFilter(d, selected_country)
         IN  IF country_df = <<>>
             THEN [kind |-> "no_data", text |-> "No data available"]
             ELSE LET counts == ResultCounts(country_df, selected_country)
                      perc == ResultPerc(counts)
                  IN  IF DOMAIN perc = {}
                      THEN [kind |-> "no_valid", text |-> "No valid match results"]
                      ELSE [kind |-> "ok", country_df |-> country_df,
                            counts |-> counts, perc |-> perc]

update_win_rate_graph(selected_country) ==
    /\ phase = "serving"
    /\ wr_arg' = selected_country
    /\ wr_out' = WinRateResult(df, selected_country)
    /\ UNCHANGED <<phase, source, repository, selectors,
                   h2h_view, ha_view, gt_view, rk_view>>

-----------------------------------------------------------------------------
(* Visualization 3: home vs away performance.                              *)

OptionValuesV3 == DropdownValues \cup {Overall}

CompetitiveRows(d) == SelectSeq(d, LAMBDA r : r.Tournament # "Friendly")

(* 100 - a - b *)
HundredMinus(a, b) ==
    Ratio(100 * a.den * b.den - a.num * b.den - b.num * a.den, a.den * b.den)

(* Lines 628-635 for the home rows, 638-645 for the away rows. *)
SideStats(rows, wins) ==
    LET total == Len(rows)
        draws == Len(SelectSeq(rows, LAMBDA r : r.Winner = "Draw"))
        win_perc == IF total > 0 THEN Pct(wins, total) ELSE Zero
        draw_perc == IF total > 0 THEN Pct(draws, total) ELSE Zero
    IN  [total |-> total, wins |-> wins, draws |-> draws,
         losses |-> total - wins - draws,
         Win |-> win_perc, Draw |-> draw_perc,
         Loss |-> HundredMinus(win_perc, draw_perc)]

HomeAwayResult(d, selected_option) ==
    IF selected_option = NoValue
    THEN [kind |-> "select", text |-> "Please select a country or Overall."]
    ELSE LET comp_df == CompetitiveRows(d)
             country_home ==
                 IF selected_option = Overall THEN comp_df
                 ELSE SelectSeq(comp_df, LAMBDA r : r.HomeTeam = selected_option)
             country_away ==
                 IF selected_option = Overall THEN comp_df
                 ELSE SelectSeq(comp_df, LAMBDA r : r.AwayTeam = selected_option)
             home == SideStats(country_home,
                               Len(SelectSeq(country_home, LAMBDA r : r.IsHomeWin)))
             away == SideStats(country_away,
                               Len(SelectSeq(country_away, LAMBDA r : r.IsAwayWin)))
         IN  IF home.total = 0 /\ away.total = 0
             THEN [kind |-> "no_data", text |-> "No competitive match data found"]
             ELSE [kind |-> "ok", Home |-> home, Away |-> away]

update_home_away_graph(selected_option) ==
    /\ phase = "serving"
    /\ ha_arg' = selected_option
    /\ ha_out' = HomeAwayResult(df, selected_option)
    /\ UNCHANGED <<phase, source, repository, selectors,
                   h2h_view, wr_view, gt_view, rk_view>>

-----------------------------------------------------------------------------
(* Visualization 2: goal scoring trends.                                   *)

WinRateGraph == "win-rate-tournament-graph"
(* dash.ctx.triggered_id; NoValue on the initial call *)
TriggerIds == {TournamentDropdown, WinRateGraph, CountryDropdownV1,
               CountryDropdownV3, NoValue}

(* clickData of the win-rate graph: None, a clicked bar of tournament      *)
(* theta, or a value without points[0]['theta'].                           *)
NoClick == [kind |-> "none"]
Click(theta) == [kind |-> "points", theta |-> theta]
MalformedClick == [kind |-> "malformed"]

(* Lines 469-481. *)
FilterTournament(trigger_id, selected_tournament_dropdown, win_rate_clickData) ==
    IF trigger_id = WinRateGraph /\ win_rate_clickData.kind = "points"
    THEN win_rate_clickData.theta
    ELSE selected_tournament_dropdown

(* Mutant: the country filter is the contextual one whatever triggered. *)
CountryToFilterBy_Contextual(trigger_id, selected_country_v1, selected_country_v3) ==
    IF selected_country_v3 # NoValue /\ selected_country_v3 # Overall
    THEN selected_country_v3 ELSE NoValue

(* Lines 484-504; NoValue is None. *)
CountryToFilterBy(trigger_id, selected_country_v1, selected_country_v3) ==
    IF trigger_id = CountryDropdownV1 /\ selected_country_v1 # NoValue
    THEN selected_country_v1
    ELSE IF /\ trigger_id = CountryDropdownV3
            /\ selected_country_v3 # NoValue /\ selected_country_v3 # Overall
    THEN selected_country_v3
    ELSE IF trigger_id # CountryDropdownV1 /\ trigger_id # CountryDropdownV3
    THEN (IF selected_country_v3 # NoValue /\ selected_country_v3 # Overall
          THEN selected_country_v3 ELSE NoValue)
    ELSE NoValue

(* Lines 513-523. *)
TrendFilter(d, country_to_filter_by, filter_tournament) ==
    LET by_country ==
            IF country_to_filter_by # NoValue
            THEN SelectSeq(d, LAMBDA r : r.HomeTeam = country_to_filter_by
                                         \/ r.AwayTeam = country_to_filter_by)
            ELSE d
    IN  IF filter_tournament # NoValue /\ filter_tournament # "All"
        THEN SelectSeq(by_country, LAMBDA r : r.Tournament = filter_tournament)
        ELSE by_country

(* Mutant: the rows are grouped by their full date. *)
GroupKey_Date(date) == date

(* filtered_df['Date'].dt.year *)
GroupKey(date) == Year(date)

(* The numbers of a finite set in ascending order. *)
RECURSIVE Ascending(_)
Ascending(S) ==
    IF S = {} THEN <<>>
    ELSE LET m == CHOOSE x \in S : \A y \in S : x <= y
         IN  <<m>> \o Ascending(S \ {m})

(* filtered_df.groupby(year)[['Home Goals', 'Away Goals']].mean()          *)
(*            .reset_index(): one row per key present, keys ascending.     *)
AvgGoalsYearly(filtered_df) ==
    LET keys == Ascending({GroupKey(filtered_df[i].Date) : i \in 1..Len(filtered_df)})
        group(k) == SelectSeq(filtered_df, LAMBDA r : GroupKey(r.Date) = k)
    IN  [j \in 1..Len(keys) |->
            LET g == group(keys[j])
            IN  [Date |-> keys[j],
                 HomeGoals |-> Ratio(SumSeq([i \in 1..Len(g) |-> g[i].HomeGoals]), Len(g)),
                 AwayGoals |-> Ratio(SumSeq([i \in 1..Len(g) |-> g[i].AwayGoals]), Len(g))]]

(* go.Scatter(x=avg_goals_yearly['Date'], y=avg_goals_yearly[column]) *)
TrendTrace(avg_goals_yearly, name) ==
    [name |-> name,
     x |-> [j \in 1..Len(avg_goals_yearly) |-> avg_goals_yearly[j].Date],
     y |-> [j \in 1..Len(avg_goals_yearly) |->
               IF name = "Home Goals" THEN avg_goals_yearly[j].HomeGoals
               ELSE avg_goals_yearly[j].AwayGoals]]

GoalTrendsResult(d, trigger_id, selected_tournament_dropdown, win_rate_clickData, selected_country_v1, selected_country_v3) ==
    LET filter_tournament ==
            FilterTournament(trigger_id, selected_tournament_dropdown,
                             win_rate_clickData)
        country_to_filter_by ==
            CountryToFilterBy(trigger_id, selected_country_v1, selected_country_v3)
        filtered_df == TrendFilter(d, country_to_filter_by, filter_tournament)
        avg_goals_yearly == AvgGoalsYearly(filtered_df)
    IN  IF avg_goals_yearly = <<>>
        THEN [kind |-> "no_data", text |-> "No relevant goal data found",
              country_to_filter_by |-> country_to_filter_by,
              filter_tournament |-> filter_tournament]
        ELSE [kind |-> "ok",
              country_to_filter_by |-> country_to_filter_by,
              filter_tournament |-> filter_tournament,
              avg_goals_yearly |-> avg_goals_yearly,
              traces |-> <<TrendTrace(avg_goals_yearly, "Home Goals"),
                           TrendTrace(avg_goals_yearly, "Away Goals")>>]

update_goal_trends_graph(trigger_id, selected_tournament_dropdown, win_rate_clickData, selected_country_v1, selected_country_v3) ==
    /\ phase = "serving"
    /\ gt_args' = <<trigger_id, selected_tournament_dropdown, win_rate_clickData,
                    selected_country_v1, selected_country_v3>>
    /\ gt_out' = GoalTrendsResult(df, trigger_id, selected_tournament_dropdown,
                                  win_rate_clickData, selected_country_v1,
                                  selected_country_v3)
    /\ UNCHANGED <<phase, source, repository, selectors,
                   h2h_view, wr_view, ha_view, rk_view>>

-----------------------------------------------------------------------------
(* Top 3 of the FIFA ranking.                                              *)

(* Mutant: the rows of every year are kept. *)
YearlyData_AnyYear(dr, selected_year) == dr

(* df_ranking[df_ranking['year'] == selected_year] *)
YearlyData(dr, selected_year) == SelectSeq(dr, LAMBDA r : r.year = selected_year)

(* yearly_data['rank_date'].max() *)
LatestDate(yearly_data) ==
    CHOOSE x \in {yearly_data[i].rank_date : i \in 1..Len(yearly_data)} :
        \A i \in 1..Len(yearly_data) : yearly_data[i].rank_date <= x

(* Mutant: the rows of the whole year are ranked. *)
LatestRanking_WholeYear(yearly_data) == yearly_data

(* yearly_data[yearly_data['rank_date'] == latest_date_in_year] *)
LatestRanking(yearly_data) ==
    SelectSeq(yearly_data, LAMBDA r : r.rank_date = LatestDate(yearly_data))

(* sort_values(by='rank', ascending=True): rows of equal rank keep their   *)
(* table order.                                                            *)
RECURSIVE SortRankAsc(_)
SortRankAsc(s) ==
    IF s = <<>> THEN <<>>
    ELSE LET i == CHOOSE j \in 1..Len(s) :
                     \A k \in 1..Len(s) :
                         \/ s[j].rank < s[k].rank
                         \/ (s[j].rank = s[k].rank /\ j <= k)
             rest == [k \in 1..(Len(s) - 1) |-> IF k < i THEN s[k] ELSE s[k + 1]]
         IN  <<s[i]>> \o SortRankAsc(rest)

Head3(s) == IF Len(s) <= 3 THEN s ELSE SubSeq(s, 1, 3)

(* html.P(f"{medal} {country_full} (Rank: {int(rank)})") *)
RankEntry(row) == [type |-> "top", country |-> row.country_full, rank |-> row.rank]

(* Lines 1186-1190. *)
CountryToShowRankFor(selected_country_v1, selected_country_v3) ==
    IF selected_country_v1 # NoValue THEN selected_country_v1
    ELSE IF selected_country_v3 # NoValue /\ selected_country_v3 # Overall
    THEN selected_country_v3
    ELSE NoValue

(* Lines 1192-1208: the elements appended for the selected country. *)
CountryElements(latest, top_3_df, country, latest_date_in_year) ==
    LET info == SelectSeq(latest, LAMBDA r : r.country_full = country)
        top_3_country_names == {top_3_df[i].country_full : i \in 1..Len(top_3_df)}
    IN  IF country = NoValue THEN <<>>
        ELSE IF info = <<>>
        THEN <<[type |-> "not_ranked", country |-> country,
                date |-> latest_date_in_year]>>
        ELSE IF country \in top_3_country_names THEN <<>>
        ELSE <<[type |-> "country", country |-> country, rank |-> info[1].rank]>>

(* The rank cells int() is applied to: those of the top rows (line 1181)   *)
(* and that of the selected country outside the top rows (line 1197).      *)
IntArguments(top_3_df, country_elements) ==
    {top_3_df[i].rank : i \in 1..Len(top_3_df)}
    \cup {country_elements[i].rank :
             i \in {j \in 1..Len(country_elements) :
                       country_elements[j].type = "country"}}

RankingResult(dr, selected_year, selected_country_v1, selected_country_v3) ==
    IF selected_year = NoYear \/ dr = <<>>
    THEN [kind |-> "not_available", elements |-> <<>>,
          text |-> "Ranking data not available or year not selected."]
    ELSE LET yearly_data == YearlyData(dr, selected_year)
         IN  IF yearly_data = <<>>
             THEN [kind |-> "no_year_data", elements |-> <<>>,
                   text |-> "No ranking data available"]
             ELSE LET latest == LatestRanking(yearly_data)
                      top_3_df == Head3(SortRankAsc(latest))
                      country == CountryToShowRankFor(selected_country_v1,
                                                      selected_country_v3)
                      country_elements ==
                          CountryElements(latest, top_3_df, country,
                                          LatestDate(yearly_data))
                  IN  IF top_3_df = <<>>
                      THEN [kind |-> "no_top_3", elements |-> <<>>,
                            text |-> "No top 3 ranking data found"]
                      ELSE IF TextRank \in IntArguments(top_3_df, country_elements)
                      THEN [kind |-> "raised", error |-> "ValueError"]
                      ELSE [kind |-> "ok", top_3_df |-> top_3_df,
                            elements |-> [i \in 1..Len(top_3_df) |->
                                             RankEntry(top_3_df[i])]
                                         \o country_elements]

update_top_3_ranking(selected_year, selected_country_v1, selected_country_v3) ==
    /\ phase = "serving"
    /\ rk_args' = <<selected_year, selected_country_v1, selected_country_v3>>
    /\ rk_out' = RankingResult(df_ranking, selected_year, selected_country_v1,
                               selected_country_v3)
    /\ UNCHANGED <<phase, source, repository, selectors,
                   h2h_view, wr_view, ha_view, gt_view>>

-----------------------------------------------------------------------------
(* The selector callbacks (lines 1043-1138 and 1213-1326).  Each is an     *)
(* operator from the arguments Dash reads when it requests the callback to *)
(* the outputs the callback returns, and an action that requests it.       *)

NoUpdate == "dash.no_update"

Range(s) == {s[i] : i \in 1..Len(s)}

(* available[0] if available else None *)
FirstOrNone(available) == IF available # <<>> THEN available[1] ELSE NoValue

(* The options and the value a callback returns for dropdown id. *)
OptionsAndValue(id, new_options, new_value) ==
    [id |-> id, has_options |-> TRUE, options |-> new_options, value |-> new_value]

(* A callback whose only output is the value of dropdown id. *)
ValueOnly(id, new_value) ==
    [id |-> id, has_options |-> FALSE, options |-> <<>>, value |-> new_value]

(* Mutant: every other team of the table counts as an opponent. *)
Opponents_Everyone(d, team) ==
    SortedUnique(TeamOrder,
                 ({d[i].HomeTeam : i \in 1..Len(d)} \cup {d[i].AwayTeam : i \in 1..Len(d)})
                 \ {team, NaN})

(* sorted(opponents of team, team itself excluded), lines 1063-1067 *)
Opponents(d, team) ==
    SortedUnique(TeamOrder,
                 ({d[i].AwayTeam : i \in {j \in 1..Len(d) : d[j].HomeTeam = team}}
                  \cup {d[i].HomeTeam : i \in {j \in 1..Len(d) : d[j].AwayTeam = team}})
                 \ {team, NaN})

(* Lines 1223-1231: the teams to offer for a tournament selection. *)
TeamsForTournament(d, teams, selected_tournament) ==
    IF selected_tournament = "All" \/ selected_tournament = NoValue
    THEN teams
    ELSE LET tournament_df == SelectSeq(d, LAMBDA r : r.Tournament = selected_tournament)
         IN  SortedUnique(TeamOrder,
                          {tournament_df[i].HomeTeam : i \in 1..Len(tournament_df)}
                          \cup {tournament_df[i].AwayTeam : i \in 1..Len(tournament_df)})

Team2OptionsResult(d, teams, selected_team1, current_team2_value) ==
    LET available_teams_for_t2 ==
            IF selected_team1 = NoValue THEN teams ELSE Opponents(d, selected_team1)
    IN  OptionsAndValue(Team2Dropdown, available_teams_for_t2,
                        IF current_team2_value \in Range(available_teams_for_t2)
                        THEN current_team2_value
                        ELSE FirstOrNone(available_teams_for_t2))

Team1OptionsResult(d, teams, selected_team2, current_team1_value) ==
    LET available_teams_for_t1 ==
            IF selected_team2 = NoValue THEN teams ELSE Opponents(d, selected_team2)
    IN  OptionsAndValue(Team1Dropdown, available_teams_for_t1,
                        IF current_team1_value \in Range(available_teams_for_t1)
                        THEN current_team1_value
                        ELSE FirstOrNone(available_teams_for_t1))

SyncV3FromV1Result(selected_country_v1, current_country_v3) ==
    ValueOnly(CountryDropdownV3,
              IF /\ selected_country_v1 # NoValue
                 /\ selected_country_v1 # Overall
                 /\ selected_country_v1 # current_country_v3
              THEN selected_country_v1
              ELSE NoUpdate)

SyncV1FromV3Result(selected_country_v3, current_country_v1, v1_options) ==
    ValueOnly(CountryDropdownV1,
              IF /\ selected_country_v3 # NoValue
                 /\ selected_country_v3 # Overall
                 /\ selected_country_v3 \in Range(v1_options)
                 /\ selected_country_v3 # current_country_v1
              THEN selected_country_v3
              ELSE NoUpdate)

CountryV1OptionsResult(d, teams, selected_tournament, current_country_v1_value) ==
    LET available_teams == TeamsForTournament(d, teams, selected_tournament)
    IN  OptionsAndValue(CountryDropdownV1, available_teams,
                        IF current_country_v1_value \in Range(available_teams)
                        THEN current_country_v1_value
                        ELSE FirstOrNone(available_teams))

TournamentV2OptionsResult(d, tournaments, selected_country, current_tournament_v2_value) ==
    LET available_tournaments ==
            IF selected_country = NoValue THEN tournaments
            ELSE LET country_games_df ==
                         SelectSeq(d, LAMBDA r : r.HomeTeam = selected_country
                                                 \/ r.AwayTeam = selected_country)
                 IN  SortedUnique(TournamentOrder,
                                  {country_games_df[i].Tournament :
                                      i \in 1..Len(country_games_df)})
        new_options == <<"All">> \o available_tournaments
    IN  OptionsAndValue(TournamentDropdown, new_options,
                        IF current_tournament_v2_value \in Range(new_options)
                        THEN current_tournament_v2_value
                        ELSE "All")

(* Mutant: the current value is kept whatever the new options are. *)
CountryV3OptionsResult_KeepValue(d, teams, selected_tournament, current_country_v3_value) ==
    OptionsAndValue(CountryDropdownV3,
                    <<Overall>> \o TeamsForTournament(d, teams, selected_tournament),
                    current_country_v3_value)

CountryV3OptionsResult(d, teams, selected_tournament, current_country_v3_value) ==
    LET new_options_v3 == <<Overall>> \o TeamsForTournament(d, teams, selected_tournament)
    IN  OptionsAndValue(CountryDropdownV3, new_options_v3,
                        IF current_country_v3_value \in Range(new_options_v3)
                        THEN current_country_v3_value
                        ELSE Overall)

SyncH2HTeam1FromV1Result(selected_country_v1) ==
    ValueOnly(Team1Dropdown,
              IF selected_country_v1 # NoValue THEN selected_country_v1 ELSE NoUpdate)

(* Mutant: 'Overall' is copied like a team. *)
SyncH2HTeam1FromV3Result_Overall(selected_country_v3) ==
    ValueOnly(Team1Dropdown,
              IF selected_country_v3 # NoValue THEN selected_country_v3 ELSE NoUpdate)

SyncH2HTeam1FromV3Result(selected_country_v3) ==
    ValueOnly(Team1Dropdown,
              IF selected_country_v3 # NoValue /\ selected_country_v3 # Overall
              THEN selected_country_v3
              ELSE NoUpdate)

(* The Input of each selector callback (the @app.callback decorators). *)
InputOf ==
    [set_team2_options |-> Team1Dropdown,
     set_team1_options |-> Team2Dropdown,
     sync_v3_from_v1 |-> CountryDropdownV1,
     sync_v1_from_v3 |-> CountryDropdownV3,
     update_country_dropdown_v1_options |-> TournamentDropdown,
     update_tournament_dropdown_v2_options |-> CountryDropdownV1,
     update_country_dropdown_v3_options |-> TournamentDropdown,
     sync_h2h_team1_from_v1 |-> CountryDropdownV1,
     sync_h2h_team1_from_v3 |-> CountryDropdownV3]

SelectorCallbacks == DOMAIN InputOf

(* The callbacks Dash requests when the value of dropdown id changes. *)
Triggered(id) == {cb \in SelectorCallbacks : InputOf[cb] = id}

Quiescent == phase = "serving" /\ pending = {} /\ inflight = {}

(* Dash requests a pending callback: it reads the Input and State          *)
(* properties as they are now and the callback computes its outputs from   *)
(* them; the outputs are applied by Respond.  A callback is not requested  *)
(* again while its previous request is unanswered.                         *)
Request(cb, out) ==
    /\ phase = "serving"
    /\ cb \in pending
    /\ \A r \in inflight : r.cb # cb
    /\ pending' = pending \ {cb}
    /\ inflight' = inflight \cup {[cb |-> cb, input |-> value[InputOf[cb]], out |-> out]}
    /\ UNCHANGED <<phase, source, repository, h2h_view, wr_view, ha_view, gt_view,
                   rk_view, value, options, user_change, before, selections>>

set_team2_options ==
    Request("set_team2_options",
            Team2OptionsResult(df, all_teams, value[Team1Dropdown], value[Team2Dropdown]))

set_team1_options ==
    Request("set_team1_options",
            Team1OptionsResult(df, all_teams, value[Team2Dropdown], value[Team1Dropdown]))

sync_v3_from_v1 ==
    Request("sync_v3_from_v1",
            SyncV3FromV1Result(value[CountryDropdownV1], value[CountryDropdownV3]))

sync_v1_from_v3 ==
    Request("sync_v1_from_v3",
            SyncV1FromV3Result(value[CountryDropdownV3], value[CountryDropdownV1],
                               options[CountryDropdownV1]))

update_country_dropdown_v1_options ==
    Request("update_country_dropdown_v1_options",
            CountryV1OptionsResult(df, all_teams, value[TournamentDropdown],
                                   value[CountryDropdownV1]))

update_tournament_dropdown_v2_options ==
    Request("update_tournament_dropdown_v2_options",
            TournamentV2OptionsResult(df, all_tournaments, value[CountryDropdownV1],
                                      value[TournamentDropdown]))

update_country_dropdown_v3_options ==
    Request("update_country_dropdown_v3_options",
            CountryV3OptionsResult(df, all_teams, value[TournamentDropdown],
                                   value[CountryDropdownV3]))

sync_h2h_team1_from_v1 ==
    Request("sync_h2h_team1_from_v1", SyncH2HTeam1FromV1Result(value[CountryDropdownV1]))

sync_h2h_team1_from_v3 ==
    Request("sync_h2h_team1_from_v3", SyncH2HTeam1FromV3Result(value[CountryDropdownV3]))

(* The outputs of an answered request are applied; the callbacks whose     *)
(* Input is a value that changed become pending.  With the last answer the *)
(* cascade of the user's selection is over.                                *)
Respond ==
    /\ phase = "serving"
    /\ \E r \in inflight :
          /\ inflight' = inflight \ {r}
          /\ value' = IF r.out.value = NoUpdate THEN value
                      ELSE [value EXCEPT ![r.out.id] = r.out.value]
          /\ options' = IF r.out.has_options
                        THEN [options EXCEPT ![r.out.id] = r.out.options]
                        ELSE options
          /\ pending' = IF value'[r.out.id] # value[r.out.id]
                        THEN pending \cup Triggered(r.out.id)
                        ELSE pending
          /\ IF pending' = {} /\ inflight' = {}
             THEN user_change' = NoChange /\ before' = NoValues
             ELSE UNCHANGED <<user_change, before>>
    /\ UNCHANGED <<phase, source, repository, h2h_view, wr_view, ha_view, gt_view,
                   rk_view, selections>>

(* The user selects one of the offered options of a dropdown, or clears    *)
(* it, while no callback is pending.                                       *)
UserSelect(id, v) ==
    /\ Quiescent
    /\ selections' = selections + 1
    /\ v \in Range(options[id]) \cup {NoValue}
    /\ v # value[id]
    /\ value' = [value EXCEPT ![id] = v]
    /\ pending' = Triggered(id)
    /\ user_change' = <<id, v>>
    /\ before' = value
    /\ UNCHANGED <<phase, source, repository, h2h_view, wr_view, ha_view, gt_view,
                   rk_view, options, inflight>>

(* Any selection in any of the five dropdowns, at most max of them. *)
UserSelects(max) ==
    /\ selections < max
    /\ \E id \in Dropdowns, v \in Teams \cup Tournaments \cup {"All", Overall, NoValue} :
           UserSelect(id, v)

(* The answer of callback cb is applied. *)
RespondTo(cb) ==
    /\ Respond
    /\ \E r \in inflight : r.cb = cb /\ inflight' = inflight \ {r}

-----------------------------------------------------------------------------
(* Specifications.                                                         *)

NotCalled == [kind |-> "not_called"]

(* The process starts with a source table of at most maxn rows, each of    *)
(* one of `kinds`, dated by one of `patterns`.                             *)
(* Before the import: nothing loaded, no callback invoked. *)
InitProcess ==
    /\ phase = "start"
    /\ df = <<>>
    /\ df_ranking = <<>>
    /\ all_teams = <<>>
    /\ all_tournaments = <<>>
    /\ h2h_args = <<NoValue, NoValue>>
    /\ h2h_out = NotCalled
    /\ wr_arg = NoValue
    /\ wr_out = NotCalled
    /\ ha_arg = NoValue
    /\ ha_out = NotCalled
    /\ gt_args = <<NoValue, NoValue, NoClick, NoValue, NoValue>>
    /\ gt_out = NotCalled
    /\ rk_args = <<NoYear, NoValue, NoValue>>
    /\ rk_out = NotCalled
    /\ value = NoValues
    /\ options = [id \in Dropdowns |-> <<>>]
    /\ pending = {}
    /\ inflight = {}
    /\ user_change = NoChange
    /\ before = NoValues
    /\ selections = 0

(* No ranking file next to the application. *)
NoRankingFile ==
    /\ ranking_file = "missing"
    /\ raw_ranking = <<>>

InitWith(kinds, maxn, patterns) ==
    /\ InitProcess
    /\ match_file = "ok"
    /\ \E n \in 0..maxn : \E p \in patterns : \E f \in [1..n -> kinds] :
           raw = [i \in 1..n |-> MkRow(DateOf(p, i, n), f[i])]
    /\ NoRankingFile

(* General head-to-head specification: short tables over three teams.      *)
Init == InitWith(RichKinds, MaxRows, {"asc"})

Next ==
    \/ Load
    \/ \E team1 \in DropdownValues, team2 \in DropdownValues :
           update_h2h_graph(team1, team2)

Spec == Init /\ [][Next]_vars

(* Recent-form specification: long shared histories of one pair.           *)
InitForm ==
    \E p \in FormPairs : InitWith(FormKinds(p[1], p[2]), MaxFormRows, {"asc", "desc"})

NextForm ==
    \/ Load
    \/ \E team1 \in Teams, team2 \in Teams : update_h2h_graph(team1, team2)

SpecForm == InitForm /\ [][NextForm]_vars

(* Selector specification: A and B have met; some tables have a pair that *)
(* never met and a tournament in which A took no part.                     *)
SelKinds ==
    {<<"A", "Draw", 1, 0, "Friendly", "consistent">>,
     <<"A", "Draw", 1, 0, "Cup", "consistent">>,
     <<"B", "Draw", 1, 0, "Friendly", "consistent">>,
     <<"Draw", "B", 1, 0, "Cup", "consistent">>}

InitSel ==
    /\ InitProcess
    /\ match_file = "ok"
    /\ \E n \in 0..(MaxSelRows - 1) : \E f \in [1..n -> SelKinds] :
           raw = <<MkRow(1, <<Brazil, Argentina, 1, 0, "Cup", "consistent">>)>>
                 \o [i \in 1..n |-> MkRow(i + 1, f[i])]
    /\ NoRankingFile

SelectorStep ==
    \/ set_team2_options
    \/ set_team1_options
    \/ sync_v3_from_v1
    \/ sync_v1_from_v3
    \/ update_country_dropdown_v1_options
    \/ update_tournament_dropdown_v2_options
    \/ update_country_dropdown_v3_options
    \/ sync_h2h_team1_from_v1
    \/ sync_h2h_team1_from_v3
    \/ Respond

NextSel ==
    \/ Load
    \/ UserSelects(MaxSelections)
    \/ SelectorStep

SpecSel == InitSel /\ [][NextSel]_vars

(* Liveness specification: the table with the one match of the layout's    *)
(* two teams, and one more selection of the user.  Dash runs every         *)
(* requested callback and applies every answer.                            *)
InitSelLive ==
    /\ InitProcess
    /\ match_file = "ok"
    /\ raw = <<MkRow(1, <<Brazil, Argentina, 1, 0, "Cup", "consistent">>)>>
    /\ NoRankingFile

NextSelLive ==
    \/ Load
    \/ UserSelects(MaxLiveSelections)
    \/ SelectorStep

SpecSelLive ==
    /\ InitSelLive
    /\ [][NextSelLive]_vars
    /\ WF_vars(set_team2_options)
    /\ WF_vars(set_team1_options)
    /\ WF_vars(sync_v3_from_v1)
    /\ WF_vars(sync_v1_from_v3)
    /\ WF_vars(update_country_dropdown_v1_options)
    /\ WF_vars(update_tournament_dropdown_v2_options)
    /\ WF_vars(update_country_dropdown_v3_options)
    /\ WF_vars(sync_h2h_team1_from_v1)
    /\ WF_vars(sync_h2h_team1_from_v3)
    /\ \A cb \in SelectorCallbacks : WF_vars(RespondTo(cb))

-----------------------------------------------------------------------------
(* Vocabulary of the properties: the shared history and the results of its *)
(* matches read directly off the loaded table (goals and dates), not off   *)
(* the callback's intermediate frames.                                     *)

H2HCalled == phase = "serving" /\ h2h_out.kind # "not_called"
H2HOk == H2HCalled /\ h2h_out.kind = "ok"
T1 == h2h_args[1]
T2 == h2h_args[2]
Opp(P) == IF P = T1 THEN T2 ELSE T1
StatsOf(P) == IF P = T1 THEN h2h_out.team1_stats ELSE h2h_out.team2_stats

Shared == {i \in 1..Len(df) : {df[i].HomeTeam, df[i].AwayTeam} = {T1, T2}}
NShared == Cardinality(Shared)

SumShared(f) == SumSeq([i \in 1..Len(df) |-> IF i \in Shared THEN f[i] ELSE 0])

GoalsFor(r, P) == IF r.HomeTeam = P THEN r.HomeGoals ELSE r.AwayGoals
GoalsAgainst(r, P) == IF r.HomeTeam = P THEN r.AwayGoals ELSE r.HomeGoals
Won(i, P) == GoalsFor(df[i], P) > GoalsAgainst(df[i], P)
Lost(i, P) == GoalsFor(df[i], P) < GoalsAgainst(df[i], P)
Drawn(i) == df[i].HomeGoals = df[i].AwayGoals

(* 1 for the most recent shared match, 2 for the one before it, ... *)
Rank(i) == 1 + Cardinality({j \in Shared : df[j].Date > df[i].Date})
Considered == {i \in Shared : Rank(i) <= 5}

(* Twice the share of a match's weight that goes to P: all of it for a     *)
(* win, half of it for a draw, none for a defeat.                          *)
Credit2(i, P) == IF Won(i, P) THEN 2 ELSE IF Lost(i, P) THEN 0 ELSE 1

(* The same as the code's Winner label hands it out: a drawn match is      *)
(* labelled 'Draw', which is a win of a team of that name.                 *)
LabelCredit2(i, P) ==
    IF Won(i, P) THEN 2
    ELSE IF Lost(i, P) THEN 0
    ELSE IF P = "Draw" THEN 2
    ELSE IF Opp(P) = "Draw" THEN 0
    ELSE 1

WeightedCredit2(P, C(_, _)) ==
    SumShared([i \in 1..Len(df) |->
                  IF i \in Considered THEN (6 - Rank(i)) * C(i, P) ELSE 0])

-----------------------------------------------------------------------------
(* C1: update_h2h_graph fails softly.  For team1 = team2, an empty team or *)
(* a pair without a record in either orientation it returns a placeholder  *)
(* figure without a table and without any metric; for every other pair it  *)
(* returns a summary computed over exactly the records with                *)
(* {home, away} = {team1, team2}.                                          *)
C1_FailsSoftly ==
    H2HCalled =>
        IF T1 = NoValue \/ T2 = NoValue \/ T1 = T2 \/ Shared = {}
        THEN /\ h2h_out.kind \in {"select_two", "no_history"}
             /\ ~h2h_out.has_table
             /\ "team1_stats" \notin DOMAIN h2h_out
             /\ "traces" \notin DOMAIN h2h_out
        ELSE /\ h2h_out.kind = "ok"
             /\ h2h_out.total_matches_h2h = NShared
             /\ RatEq(h2h_out.avg_goals_per_match,
                      SumShared([i \in 1..Len(df) |->
                                    df[i].HomeGoals + df[i].AwayGoals]),
                      NShared)
             /\ Len(h2h_out.table) = Min(NShared, 5)
             /\ \A k \in 1..Len(h2h_out.table) :
                    \E i \in Shared : /\ Rank(i) = k
                                      /\ h2h_out.table[k] = DisplayRow(df[i])

(* A pair of two different teams that never met, in a table with matches. *)
C1_Witness ==
    /\ H2HCalled
    /\ h2h_out.kind = "no_history"
    /\ T1 = "B" /\ T2 = "Draw"
    /\ Len(df) = 3

-----------------------------------------------------------------------------
-----------------------------------------------------------------------------
-----------------------------------------------------------------------------
(* C4: for a non-empty shared history the Recent Form of either            *)
(* participant lies in [0, 100].                                           *)
C4_FormBounded ==
    H2HOk =>
        \A P \in {T1, T2} :
            /\ StatsOf(P).RecentForm.den > 0
            /\ RatGe(StatsOf(P).RecentForm, 0, 1)
            /\ RatLe(StatsOf(P).RecentForm, 100, 1)

(* Five drawn matches between A and B: both sides at 50. *)
C4_Witness ==
    /\ H2HOk
    /\ {T1, T2} = {"A", "B"}
    /\ NShared = 5
    /\ \A i \in Shared : Drawn(i)
    /\ RatEq(h2h_out.team1_stats.RecentForm, 50, 1)
    /\ RatEq(h2h_out.team2_stats.RecentForm, 50, 1)

-----------------------------------------------------------------------------
(* C5: in the raw tallies every shared match is counted in exactly one of  *)
(* team1 wins, team2 wins and draws: the three add up to the number of     *)
(* shared matches, for every pair of distinct names.                       *)
C5_TalliesPartition ==
    H2HOk =>
        /\ h2h_out.team1_wins + h2h_out.team2_wins + h2h_out.draws
               = h2h_out.total_matches_h2h
        /\ h2h_out.team1_wins = Cardinality({i \in Shared : Won(i, T1)})
        /\ h2h_out.team2_wins = Cardinality({i \in Shared : Won(i, T2)})
        /\ h2h_out.draws = Cardinality({i \in Shared : Drawn(i)})

-----------------------------------------------------------------------------
(* C6: the head-to-head computation never divides by zero; Home Win Rate   *)
(* of P is (P's wins as home side) / (matches with P as home side) * 100   *)
(* when P was home at least once and 0 when P was never home.              *)
HomeOf(P) == {i \in Shared : df[i].HomeTeam = P}

C6_NoZeroDivision ==
    H2HCalled =>
        /\ h2h_out.kind # "ZeroDivisionError"
        /\ h2h_out.kind = "ok" =>
               \A P \in {T1, T2} :
                   IF HomeOf(P) = {}
                   THEN StatsOf(P).HomeWinRate = Zero
                   ELSE RatEq(StatsOf(P).HomeWinRate,
                              100 * Cardinality({i \in HomeOf(P) : Won(i, P)}),
                              Cardinality(HomeOf(P)))

(* The part of the statement that is about faults alone (it holds): no     *)
(* quotient of the computation has a zero denominator.                     *)
NoZeroDenominator == H2HCalled => h2h_out.kind # "ZeroDivisionError"

-----------------------------------------------------------------------------
(* C7 as stated: with exactly 3 shared matches of which A won 2 (one as home side,   *)
(* one as away side) and B won 1 (as home side), A's Win Rate is 200/3 and *)
(* both Home Win Rates are 100.                                            *)
C7_Scenario(A, B) ==
    /\ NShared = 3
    /\ Cardinality({i \in Shared : Won(i, A)}) = 2
    /\ Cardinality({i \in Shared : Won(i, A) /\ df[i].HomeTeam = A}) = 1
    /\ Cardinality({i \in Shared : Won(i, A) /\ df[i].AwayTeam = A}) = 1
    /\ Cardinality({i \in Shared : Won(i, B) /\ df[i].HomeTeam = B}) = 1

C7_ThreeMatchScenario ==
    H2HOk =>
        \A A \in {T1, T2} :
            C7_Scenario(A, Opp(A)) =>
                /\ RatEq(StatsOf(A).WinRate, 200, 3)
                /\ RatEq(StatsOf(A).HomeWinRate, 100, 1)
                /\ RatEq(StatsOf(Opp(A)).HomeWinRate, 100, 1)

(* C7 as amended: in that scenario B was the home side twice (its own win *)
(* and A's away win), so A's Win Rate is 200/3, A's Home Win Rate is 100   *)
(* (1 of 1) and B's Home Win Rate is 50 (1 of 2).                          *)
C7_ThreeMatchScenarioHalf ==
    H2HOk =>
        \A A \in {T1, T2} :
            C7_Scenario(A, Opp(A)) =>
                /\ RatEq(StatsOf(A).WinRate, 200, 3)
                /\ RatEq(StatsOf(A).HomeWinRate, 100, 1)
                /\ RatEq(StatsOf(Opp(A)).HomeWinRate, 50, 1)

C7_Witness ==
    /\ H2HOk
    /\ T1 = "A" /\ T2 = "B"
    /\ C7_Scenario(T1, T2)
    /\ Len(df) = 3
    /\ h2h_out.team1_stats.WinRate = Ratio(200, 3)
    /\ h2h_out.team2_stats.HomeWinRate = Ratio(100, 2)

-----------------------------------------------------------------------------
(* C8: Clean Sheets of P is 100 * (shared matches with P home and no away  *)
(* goal, plus those with P away and no home goal) / total shared matches,  *)
(* each match counted at most once, so it lies in [0, 100].                *)
KeptCleanSheet(i, P) == GoalsAgainst(df[i], P) = 0

C8_CleanSheets ==
    H2HOk =>
        \A P \in {T1, T2} :
            /\ RatEq(StatsOf(P).CleanSheets,
                     100 * Cardinality({i \in Shared : KeptCleanSheet(i, P)}),
                     NShared)
            /\ StatsOf(P).CleanSheets.den > 0
            /\ RatGe(StatsOf(P).CleanSheets, 0, 1)
            /\ RatLe(StatsOf(P).CleanSheets, 100, 1)

(* Three shared matches; team1 kept a clean sheet once at home and once    *)
(* away and conceded in the third.                                         *)
C8_Witness ==
    /\ H2HOk
    /\ NShared = 3
    /\ \E i \in Shared : df[i].HomeTeam = T1 /\ KeptCleanSheet(i, T1)
    /\ \E i \in Shared : df[i].AwayTeam = T1 /\ KeptCleanSheet(i, T1)
    /\ \E i \in Shared : ~KeptCleanSheet(i, T1)
    /\ RatEq(h2h_out.team1_stats.CleanSheets, 200, 3)

-----------------------------------------------------------------------------
(* C9: the head-to-head summary holds a directed flow table keyed by (home *)
(* participant, outcome bucket) whose emitted edges all count >= 1 and     *)
(* add up to the number of shared matches.                                 *)
C9_FlowTable ==
    H2HOk =>
        LET edges == FlowEdges(h2h_out)
        IN  /\ \A e \in edges : e.value >= 1
            /\ SumSeq([k \in 1..Len(h2h_out.traces) |->
                          IF h2h_out.traces[k] \in edges
                          THEN h2h_out.traces[k].value ELSE 0])
                   = h2h_out.total_matches_h2h

-----------------------------------------------------------------------------
(* C10: in update_win_rate_graph, for the selected participant and every   *)
(* tournament group of its matches, Win + Draw + Loss is the number of the *)
(* participant's matches in that group.                                    *)
WROk == phase = "serving" /\ wr_out.kind = "ok"

WRGroup(t) ==
    {i \in 1..Len(df) : /\ wr_arg \in {df[i].HomeTeam, df[i].AwayTeam}
                        /\ df[i].Tournament = t}

C10_TallyCoversGroup ==
    WROk =>
        \A t \in Tournaments :
            IF WRGroup(t) = {}
            THEN t \notin DOMAIN wr_out.counts
            ELSE /\ t \in DOMAIN wr_out.counts
                 /\ wr_out.counts[t].Win + wr_out.counts[t].Draw
                        + wr_out.counts[t].Loss = Cardinality(WRGroup(t))

(* Two matches of the participant in one tournament: one won, one lost. *)
C10_Witness ==
    /\ WROk
    /\ \E t \in Tournaments :
           /\ Cardinality(WRGroup(t)) = 2
           /\ wr_out.counts[t] = [Win |-> 1, Draw |-> 0, Loss |-> 1]

(* Win-rate specification: tables over two tournaments whose 'Winning      *)
(* Team' / 'Losing Team' columns may disagree with the goals.              *)
InitWR == InitWith(WRKinds, MaxWRRows, {"asc", "nat1"})

NextWR ==
    \/ Load
    \/ \E selected_country \in DropdownValues :
           update_win_rate_graph(selected_country)

SpecWR == InitWR /\ [][NextWR]_vars

-----------------------------------------------------------------------------
(* Further specifications.                                                 *)

MaxHARows == 3      \* rows of a table of the home/away specification
MaxGTRows == 3      \* rows of a table of the goal-trends specification
MaxRankRows == 4    \* rows of a ranking table of the ranking specification
MaxAllRows == 1     \* rows of either table of the whole-process specification

(* Home/away specification: competitive and friendly matches; B and a team *)
(* named 'Draw' play competitive matches at home only.                     *)
HAKinds ==
    {<<"A", "B", 1, 0, "Cup", "consistent">>,
     <<"A", "B", 0, 1, "Cup", "consistent">>,
     <<"B", "A", 0, 0, "Cup", "consistent">>,
     <<"B", "A", 2, 1, "Friendly", "consistent">>,
     <<"Draw", "B", 0, 0, "Cup", "consistent">>}

InitHA == InitWith(HAKinds, MaxHARows, {"asc"})

NextHA ==
    \/ Load
    \/ \E selected_option \in OptionValuesV3 : update_home_away_graph(selected_option)
    \/ \E selected_country \in DropdownValues : update_win_rate_graph(selected_country)

SpecHA == InitHA /\ [][NextHA]_vars

(* Goal-trends specification: matches of the years 2018 (two dates), 2019  *)
(* and 2020.  The seventh component of a kind is its date.                 *)
GTKinds ==
    {<<"A", "B", 1, 0, "Cup", "consistent", 20180310>>,
     <<"A", "B", 3, 1, "Cup", "consistent", 20181120>>,
     <<"B", "Draw", 0, 2, "Friendly", "consistent", 20190615>>,
     <<"A", "B", 2, 2, "Cup", "consistent", 20200704>>}

InitGT ==
    /\ InitProcess
    /\ match_file = "ok"
    /\ \E n \in 0..MaxGTRows : \E f \in [1..n -> GTKinds] :
           raw = [i \in 1..n |-> MkRow(f[i][7], f[i])]
    /\ NoRankingFile

NextGT ==
    \/ Load
    \/ \E trigger_id \in TriggerIds,
          selected_tournament_dropdown \in {"All", "Friendly"},
          win_rate_clickData \in {NoClick, Click("Cup"), MalformedClick},
          selected_country_v1 \in {NoValue, "A"},
          selected_country_v3 \in {Overall, "Draw"} :
           update_goal_trends_graph(trigger_id, selected_tournament_dropdown,
                                    win_rate_clickData, selected_country_v1,
                                    selected_country_v3)

SpecGT == InitGT /\ [][NextGT]_vars

(* Ranking specification: two snapshots of 2020 and one of 2021; a row     *)
(* whose rank is text, and a row of a later date whose rank is missing.    *)
(* A kind is <<rank_date, rank, country_full>>.                            *)
RankKinds ==
    {<<20200101, 1, "A">>,
     <<20200601, 2, "A">>,
     <<20200601, 3, "B">>,
     <<20210101, 1, "B">>,
     <<20200601, TextRank, "B">>,
     <<20200901, NoRank, "B">>}

MkRankRow(k) == [rank_date |-> k[1], rank |-> k[2], country_full |-> k[3]]

RankTable(kinds, maxn) ==
    \/ /\ ranking_file = "missing"
       /\ raw_ranking = <<>>
    \/ /\ ranking_file = "ok"
       /\ \E n \in 0..maxn : \E f \in [1..n -> kinds] :
              raw_ranking = [i \in 1..n |-> MkRankRow(f[i])]

InitRank ==
    /\ InitProcess
    /\ match_file = "ok"
    /\ raw = <<>>
    /\ RankTable(RankKinds, MaxRankRows)

NextRank ==
    \/ Load
    \/ \E selected_year \in {NoYear, 2019, 2020},
          selected_country_v1 \in {NoValue, "A"},
          selected_country_v3 \in {NoValue, Overall, "B"} :
           update_top_3_ranking(selected_year, selected_country_v1,
                                selected_country_v3)

SpecRank == InitRank /\ [][NextRank]_vars

(* Whole-process specification: either file may be missing, the match file *)
(* also unreadable; every callback that computes on the tables.            *)
AllKinds ==
    {<<"A", "B", 2, 1, "Cup", "consistent", 20200704>>,
     <<"B", "A", 0, 0, "Friendly", "consistent", 20200704>>}

AllRankKinds == {<<20200601, 1, "B">>, <<20200601, 2, "A">>}

InitAll ==
    /\ InitProcess
    /\ \/ /\ match_file \in {"missing", "unreadable"}
          /\ raw = <<>>
       \/ /\ match_file = "ok"
          /\ \E n \in 0..MaxAllRows : \E f \in [1..n -> AllKinds] :
                 raw = [i \in 1..n |-> MkRow(f[i][7], f[i])]
    /\ RankTable(AllRankKinds, MaxAllRows)

NextAll ==
    \/ Load
    \/ \E team2 \in {"A", "B"} : update_h2h_graph("A", team2)
    \/ \E selected_country \in {NoValue, "A"} : update_win_rate_graph(selected_country)
    \/ \E selected_option \in {Overall, "B"} : update_home_away_graph(selected_option)
    \/ \E trigger_id \in {TournamentDropdown, CountryDropdownV1} :
           update_goal_trends_graph(trigger_id, "All", NoClick, "A", Overall)
    \/ \E selected_year \in {NoYear, 2020} :
           update_top_3_ranking(selected_year, "A", NoValue)

SpecAll == InitAll /\ [][NextAll]_vars

-----------------------------------------------------------------------------
(* C11: the perspective tally of update_win_rate_graph counts a record as  *)
(* Draw exactly when its goals are equal, as Win exactly when the selected *)
(* participant scored more, and as Loss otherwise, whatever the 'Winning   *)
(* Team' / 'Losing Team' columns of the source hold.                       *)
GoalResult(i, P) ==
    IF Drawn(i) THEN "Draw" ELSE IF Won(i, P) THEN "Win" ELSE "Loss"

C11_TallyByGoals ==
    WROk =>
        \A t \in DOMAIN wr_out.counts : \A res \in {"Win", "Draw", "Loss"} :
            wr_out.counts[t][res]
                = Cardinality({i \in WRGroup(t) : GoalResult(i, wr_arg) = res})

-----------------------------------------------------------------------------
(* C12: for every retained match record exactly one of the load-time       *)
(* labels IsHomeWin, IsAwayWin, Winner = 'Draw' holds, and it is the one   *)
(* the goals decide.                                                       *)
LabelsOf(r) ==
    {l \in {"HomeWin", "AwayWin", "Draw"} :
        \/ (l = "HomeWin" /\ r.IsHomeWin)
        \/ (l = "AwayWin" /\ r.IsAwayWin)
        \/ (l = "Draw" /\ r.Winner = "Draw")}

C12_OneLabelByGoals ==
    phase = "serving" =>
        \A i \in 1..Len(df) :
            /\ Cardinality(LabelsOf(df[i])) = 1
            /\ df[i].IsHomeWin <=> (df[i].HomeGoals > df[i].AwayGoals)
            /\ df[i].IsAwayWin <=> (df[i].AwayGoals > df[i].HomeGoals)
            /\ (df[i].Winner = "Draw") <=> (df[i].HomeGoals = df[i].AwayGoals)

-----------------------------------------------------------------------------
(* C13: every win/draw/loss percentage triple computed over a non-empty    *)
(* subset (a tournament row of update_win_rate_graph, the home and the     *)
(* away triple of update_home_away_graph) has its three percentages in     *)
(* [0, 100] and adding up to 100.                                          *)
HAOk == phase = "serving" /\ ha_out.kind = "ok"

IsPercentage(q) == q.den > 0 /\ RatGe(q, 0, 1) /\ RatLe(q, 100, 1)

(* Win + Draw + Loss = total * 100 / 100, over a common denominator *)
TripleSum(t, total) ==
    /\ t.Win.den > 0 /\ t.Draw.den > 0 /\ t.Loss.den > 0
    /\ t.Win.num * t.Draw.den * t.Loss.den
         + t.Draw.num * t.Win.den * t.Loss.den
         + t.Loss.num * t.Win.den * t.Draw.den
       = total * t.Win.den * t.Draw.den * t.Loss.den

ProperTriple(t) ==
    /\ IsPercentage(t.Win) /\ IsPercentage(t.Draw) /\ IsPercentage(t.Loss)
    /\ TripleSum(t, 100)

C13_TriplesSumTo100 ==
    /\ WROk => \A t \in DOMAIN wr_out.perc : ProperTriple(wr_out.perc[t])
    /\ HAOk => \A side \in {ha_out.Home, ha_out.Away} :
                   side.total > 0 => ProperTriple(side)

-----------------------------------------------------------------------------
(* C14: a win/draw/loss percentage triple computed over an empty subset is *)
(* (0, 0, 0); in update_home_away_graph, the triple of the side on which   *)
(* the participant has no competitive match, while it has one on the other *)
(* side, is (0, 0, 0).                                                     *)
C14_EmptyTripleIsZero ==
    HAOk => \A side \in {ha_out.Home, ha_out.Away} :
                side.total = 0 =>
                    /\ RatEq(side.Win, 0, 1)
                    /\ RatEq(side.Draw, 0, 1)
                    /\ RatEq(side.Loss, 0, 1)

-----------------------------------------------------------------------------
(* C15: the yearly goal averages of update_goal_trends_graph hold exactly  *)
(* one entry per calendar year with a match in the filtered subset, in     *)
(* ascending year order, and none for a year without one; an empty         *)
(* filtered subset gives the 'no data' result.                             *)
GTCalled == phase = "serving" /\ gt_out.kind # "not_called"

GTSubset ==
    {i \in 1..Len(df) :
        /\ \/ gt_out.country_to_filter_by = NoValue
           \/ gt_out.country_to_filter_by \in {df[i].HomeTeam, df[i].AwayTeam}
        /\ \/ gt_out.filter_tournament \in {NoValue, "All"}
           \/ df[i].Tournament = gt_out.filter_tournament}

GTYears == {Year(df[i].Date) : i \in GTSubset}
GTOfYear(y) == {i \in GTSubset : Year(df[i].Date) = y}

C15_OneEntryPerYear ==
    GTCalled =>
        IF GTSubset = {}
        THEN gt_out.kind = "no_data"
        ELSE /\ gt_out.kind = "ok"
             /\ LET e == gt_out.avg_goals_yearly
                IN  /\ Len(e) = Cardinality(GTYears)
                    /\ {e[j].Date : j \in 1..Len(e)} = GTYears
                    /\ \A j \in 1..(Len(e) - 1) : e[j].Date < e[j + 1].Date
                    /\ \A j \in 1..Len(e) :
                           /\ RatEq(e[j].HomeGoals,
                                    SumSeq([i \in 1..Len(df) |->
                                               IF i \in GTOfYear(e[j].Date)
                                               THEN df[i].HomeGoals ELSE 0]),
                                    Cardinality(GTOfYear(e[j].Date)))
                           /\ \A k \in 1..Len(gt_out.traces) :
                                  gt_out.traces[k].x[j] = e[j].Date

(* Matches of A in 2018 and 2020, a match without A in 2019: the sequence  *)
(* filtered to A has the two entries 2018 and 2020.                        *)
C15_Witness ==
    /\ GTCalled
    /\ gt_out.kind = "ok"
    /\ gt_out.country_to_filter_by = "A"
    /\ [j \in 1..Len(gt_out.avg_goals_yearly) |-> gt_out.avg_goals_yearly[j].Date]
           = <<2018, 2020>>
    /\ \E i \in 1..Len(df) : Year(df[i].Date) = 2019

-----------------------------------------------------------------------------
(* C16: for a selected year with ranking rows, the top-3 list of           *)
(* update_top_3_ranking holds only rows of the latest ranking date of that *)
(* year, in ascending rank order, min(3, rows at that date) of them, and   *)
(* these are the best ranked of that date; no row of an earlier snapshot   *)
(* appears.                                                                *)
RkCalled == phase = "serving" /\ rk_out.kind # "not_called"
RkYear == rk_args[1]
RkYearRows == {i \in 1..Len(df_ranking) : df_ranking[i].year = RkYear}
RkLatest ==
    {i \in RkYearRows :
        \A j \in RkYearRows : df_ranking[j].rank_date <= df_ranking[i].rank_date}

C16_TopOfLatestSnapshot ==
    (RkCalled /\ RkYear # NoYear /\ RkYearRows # {} /\ rk_out.kind # "raised") =>
        /\ rk_out.kind = "ok"
        /\ LET top == rk_out.top_3_df
           IN  /\ Len(top) = Min(3, Cardinality(RkLatest))
               /\ \A k \in 1..Len(top) :
                      /\ \E i \in RkLatest : top[k] = df_ranking[i]
                      /\ rk_out.elements[k]
                             = [type |-> "top", country |-> top[k].country_full,
                                rank |-> top[k].rank]
               /\ \A k \in 1..(Len(top) - 1) : top[k].rank <= top[k + 1].rank
               /\ \A r \in {df_ranking[i].rank : i \in RkLatest} :
                      Cardinality({k \in 1..Len(top) : top[k].rank = r})
                          = Min(Cardinality({i \in RkLatest : df_ranking[i].rank = r}),
                                3 - Cardinality({k \in 1..Len(top) : top[k].rank < r}))

(* A year with an earlier snapshot holding rank 1 and a latest snapshot of *)
(* three rows, all ranked behind it.                                       *)
C16_Witness ==
    /\ RkCalled
    /\ rk_out.kind = "ok"
    /\ Cardinality(RkLatest) = 3
    /\ Len(rk_out.top_3_df) = 3
    /\ \E i \in RkYearRows \ RkLatest :
           df_ranking[i].rank < rk_out.top_3_df[1].rank

-----------------------------------------------------------------------------
(* C17: with no year selected, without a ranking table, or for a year      *)
(* without ranking rows, update_top_3_ranking raises nothing and returns   *)
(* no top entry and no rank for any participant.                           *)
RanksShownFor(P) ==
    {rk_out.elements[k].rank :
        k \in {j \in 1..Len(rk_out.elements) :
                  /\ rk_out.elements[j].type \in {"top", "country"}
                  /\ rk_out.elements[j].country = P}}

C17_RankingFailsSoftly ==
    (RkCalled /\ (RkYear = NoYear \/ ranking_file = "missing" \/ RkYearRows = {})) =>
        /\ rk_out.kind \in {"not_available", "no_year_data"}
        /\ rk_out.elements = <<>>
        /\ \A P \in Teams : RanksShownFor(P) = {}

(* A ranking table with rows of other years only, and a selected country. *)
C17_Witness ==
    /\ RkCalled
    /\ df_ranking # <<>>
    /\ RkYear = 2019
    /\ rk_args[2] = "A"
    /\ \E i \in 1..Len(df_ranking) : df_ranking[i].country_full = "A"
    /\ rk_out.kind = "no_year_data"

-----------------------------------------------------------------------------
(* C18: a missing or unreadable match file stops the process before any    *)
(* query is served; with a missing ranking file the process still starts,  *)
(* every other query returns what the match table alone determines, and    *)
(* only the ranking lookup returns 'not available'.                        *)
C18_LoadPolicy ==
    /\ match_file # "ok" =>
           /\ phase \in {"start", "stopped"}
           /\ h2h_out = NotCalled /\ wr_out = NotCalled /\ ha_out = NotCalled
           /\ gt_out = NotCalled /\ rk_out = NotCalled
    /\ (match_file = "ok" /\ phase # "start") => phase = "serving"
    /\ phase = "serving" =>
           /\ df = LoadDf(raw)
           /\ h2h_out # NotCalled =>
                  h2h_out = H2HResult(LoadDf(raw), h2h_args[1], h2h_args[2])
           /\ wr_out # NotCalled => wr_out = WinRateResult(LoadDf(raw), wr_arg)
           /\ ha_out # NotCalled => ha_out = HomeAwayResult(LoadDf(raw), ha_arg)
           /\ gt_out # NotCalled =>
                  \E trigger_id \in {TournamentDropdown, CountryDropdownV1} :
                      gt_out = GoalTrendsResult(LoadDf(raw), trigger_id, "All",
                                                NoClick, "A", Overall)
           /\ (ranking_file = "missing" /\ rk_out # NotCalled) =>
                  rk_out.kind = "not_available"

(* No ranking file: the head-to-head summary is computed, the ranking      *)
(* lookup for 2020 is not available.                                       *)
C18_Witness ==
    /\ phase = "serving"
    /\ ranking_file = "missing"
    /\ h2h_out.kind = "ok"
    /\ wr_out.kind = "ok"
    /\ rk_args[1] = 2020
    /\ rk_out.kind = "not_available"

-----------------------------------------------------------------------------
(* C19: after the load no callback changes df, df_ranking, all_teams or    *)
(* all_tournaments.                                                        *)
C19_RepositoryReadOnly ==
    [][phase = "serving" => UNCHANGED repository]_vars

(* Every callback has run on non-empty tables. *)
C19_Witness ==
    /\ phase = "serving"
    /\ df # <<>> /\ df_ranking # <<>>
    /\ h2h_out.kind = "ok" /\ wr_out.kind = "ok" /\ ha_out.kind = "ok"
    /\ gt_out.kind = "ok" /\ rk_out.kind = "ok"

-----------------------------------------------------------------------------
(* C20: a fault raised at any step of a query is caught inside the         *)
(* callback and reported as a 'could not compute' result; for              *)
(* update_top_3_ranking: no invocation ends by raising.                    *)
C20_FaultsCaught == RkCalled => rk_out.kind # "raised"

-----------------------------------------------------------------------------
(* C28: update_h2h_graph is symmetric in its two teams.  Called with the   *)
(* pair the other way round it returns the same profiles and average goals *)
(* with the two sides exchanged, and the same total, draw count, combined  *)
(* average and share of matches with more than 2.5 goals.                  *)
Swapped == H2HResult(df, T2, T1)

C28_SwapSymmetric ==
    H2HOk =>
        /\ Swapped.kind = "ok"
        /\ Swapped.team1_stats = h2h_out.team2_stats
        /\ Swapped.team2_stats = h2h_out.team1_stats
        /\ Swapped.team1_avg_goals = h2h_out.team2_avg_goals
        /\ Swapped.team2_avg_goals = h2h_out.team1_avg_goals
        /\ Swapped.team1_wins = h2h_out.team2_wins
        /\ Swapped.team2_wins = h2h_out.team1_wins
        /\ Swapped.total_matches_h2h = h2h_out.total_matches_h2h
        /\ Swapped.draws = h2h_out.draws
        /\ Swapped.avg_goals_per_match = h2h_out.avg_goals_per_match
        /\ Swapped.perc_over_2_5 = h2h_out.perc_over_2_5

(* B against A over three matches, one of them drawn, with profiles and    *)
(* average goals that differ between the two sides.                        *)
C28_Witness ==
    /\ H2HOk
    /\ T1 = "B" /\ T2 = "A"
    /\ NShared = 3
    /\ \E i \in Shared : Drawn(i)
    /\ h2h_out.team1_stats # h2h_out.team2_stats
    /\ h2h_out.team1_avg_goals # h2h_out.team2_avg_goals
    /\ Swapped.team1_stats = h2h_out.team2_stats

-----------------------------------------------------------------------------
(* C29: the Recent Form values of the two teams add up to 100 * W / 15,    *)
(* W being the sum of the first min(k, 5) weights of [5,4,3,2,1] for a     *)
(* shared history of k matches: exactly 100 from five matches on, less     *)
(* than 100 below five.                                                    *)
FirstWeights(k) == SumSeq([j \in 1..Min(k, 5) |-> 6 - j])
FormSum ==
    LET f1 == h2h_out.team1_stats.RecentForm
        f2 == h2h_out.team2_stats.RecentForm
    IN  [num |-> f1.num * f2.den + f2.num * f1.den, den |-> f1.den * f2.den]

C29_FormsShareTheWeights ==
    H2HOk =>
        /\ FormSum.den > 0
        /\ RatEq(FormSum, 100 * FirstWeights(NShared), 15)
        /\ NShared >= 5 => RatEq(FormSum, 100, 1)
        /\ NShared < 5 => ~RatGe(FormSum, 100, 1)

(* Three matches, one won by each side and one drawn: the forms add up to  *)
(* 100 * 12 / 15 = 80.                                                     *)
C29_Witness ==
    /\ H2HOk
    /\ {T1, T2} = {"A", "B"}
    /\ NShared = 3
    /\ \E i \in Shared : Drawn(i)
    /\ \E i \in Shared : Won(i, T1)
    /\ \E i \in Shared : Lost(i, T1)
    /\ RatEq(FormSum, 80, 1)

-----------------------------------------------------------------------------
(* C30: with 'Overall' selected the home and the away side of              *)
(* update_home_away_graph mirror each other (home win % = away loss %,     *)
(* home loss % = away win %, equal draw %), and for no selected option     *)
(* does a match of the tournament 'Friendly' contribute to a value.        *)
HACalled == phase = "serving" /\ ha_out.kind # "not_called"
WithoutFriendlies == SelectSeq(df, LAMBDA r : r.Tournament # "Friendly")

C30_FriendliesExcluded ==
    HACalled => ha_out = HomeAwayResult(WithoutFriendlies, ha_arg)

C30_OverallMirror ==
    /\ C30_FriendliesExcluded
    /\ (HAOk /\ ha_arg = Overall) =>
           /\ RatEq(ha_out.Home.Win, ha_out.Away.Loss.num, ha_out.Away.Loss.den)
           /\ RatEq(ha_out.Home.Loss, ha_out.Away.Win.num, ha_out.Away.Win.den)
           /\ RatEq(ha_out.Home.Draw, ha_out.Away.Draw.num, ha_out.Away.Draw.den)

-----------------------------------------------------------------------------
(* C21: the filters update_goal_trends_graph applies are determined by its *)
(* four input values alone: an invocation with the same tournament         *)
(* dropdown value, click data and country values applies the same country  *)
(* and tournament filter and gives the same yearly averages whichever      *)
(* control triggered it.                                                   *)
GTTrigger == gt_args[1]
GTDropdown == gt_args[2]
GTClick == gt_args[3]
GTV1 == gt_args[4]
GTV3 == gt_args[5]
SameInputs(trigger_id) == GoalTrendsResult(df, trigger_id, GTDropdown, GTClick, GTV1, GTV3)

C21_TriggerIndependent ==
    GTCalled => \A trigger_id \in TriggerIds : SameInputs(trigger_id) = gt_out

(* As the code has it, the triggering control is a fifth input: a click on *)
(* the win-rate graph that triggered and carries a point overrides the     *)
(* tournament dropdown; the country is the one of country-dropdown-v1 when *)
(* that dropdown triggered, and otherwise the one of country-dropdown-v3   *)
(* unless that is empty or 'Overall'.  Two invocations with the same input *)
(* values and triggers alike in these two respects give the same result.   *)
NamedV3 == IF GTV3 \in {NoValue, Overall} THEN NoValue ELSE GTV3
ClickedBar == GTTrigger = WinRateGraph /\ GTClick.kind = "points"

C21_FiltersByTrigger ==
    GTCalled =>
        /\ gt_out.filter_tournament = IF ClickedBar THEN GTClick.theta ELSE GTDropdown
        /\ gt_out.country_to_filter_by =
               IF GTTrigger = CountryDropdownV1 THEN GTV1 ELSE NamedV3
        /\ \A trigger_id \in TriggerIds :
               (/\ (trigger_id = CountryDropdownV1) <=> (GTTrigger = CountryDropdownV1)
                /\ (trigger_id = WinRateGraph) <=> (GTTrigger = WinRateGraph))
               => SameInputs(trigger_id) = gt_out

(* Triggered by country-dropdown-v1 with 'A' selected there and a team in  *)
(* country-dropdown-v3: the averages are those of A, while the same values *)
(* with the tournament dropdown as trigger give those of the other team.   *)
C21_Witness ==
    /\ GTCalled
    /\ GTTrigger = CountryDropdownV1
    /\ GTV1 = "A" /\ GTV3 = "Draw"
    /\ gt_out.kind = "ok"
    /\ gt_out.country_to_filter_by = "A"
    /\ SameInputs(TournamentDropdown).kind = "ok"
    /\ SameInputs(TournamentDropdown).country_to_filter_by = "Draw"
    /\ SameInputs(TournamentDropdown).avg_goals_yearly # gt_out.avg_goals_yearly

-----------------------------------------------------------------------------
(* Vocabulary of the selector properties.                                  *)
V1 == value[CountryDropdownV1]
V2 == value[TournamentDropdown]
V3 == value[CountryDropdownV3]
Team1 == value[Team1Dropdown]
Team2 == value[Team2Dropdown]
Changed == user_change[1]
Selected == user_change[2]
SyncCallbacks ==
    {"sync_v3_from_v1", "sync_v1_from_v3", "sync_h2h_team1_from_v1",
     "sync_h2h_team1_from_v3"}

(* The step that answers the last outstanding request of a cascade. *)
Settles == ~Quiescent /\ pending' = {} /\ inflight' = {}

(* One answer is outstanding and it changes nothing: the values are the    *)
(* settled ones.                                                           *)
LastAnswerIdle ==
    /\ phase = "serving"
    /\ pending = {}
    /\ Cardinality(inflight) = 1
    /\ \A r \in inflight : r.out.value \in {NoUpdate, value[r.out.id]}

(* C22: 'Overall' stays in country-dropdown-v3.  While the cascade of a    *)
(* selection of 'Overall' there runs, country-dropdown-v1 and              *)
(* team1-dropdown-v4 keep their values; no sync callback returns 'Overall' *)
(* for country-dropdown-v1 or team1-dropdown-v4, and sync_v3_from_v1 does  *)
(* not return it for country-dropdown-v3.                                  *)
NoSyncReturnsOverall ==
    \A r \in inflight : r.cb \in SyncCallbacks => r.out.value # Overall

OverallLeavesCountryAndTeam1 ==
    (Changed = CountryDropdownV3 /\ Selected = Overall) =>
        /\ value'[CountryDropdownV1] = value[CountryDropdownV1]
        /\ value'[Team1Dropdown] = value[Team1Dropdown]

-----------------------------------------------------------------------------
(* C25: when the user has selected a country X in country-dropdown-v1 and  *)
(* the cascade has settled, country-dropdown-v1, country-dropdown-v3 and   *)
(* team1-dropdown-v4 all show X.                                           *)
C25_CountrySelectionSpreads ==
    [][(Settles /\ Changed = CountryDropdownV1 /\ Selected # NoValue) =>
          /\ value'[CountryDropdownV1] = Selected
          /\ value'[CountryDropdownV3] = Selected
          /\ value'[Team1Dropdown] = Selected]_vars

-----------------------------------------------------------------------------
(* C26: in a quiescent state with both team dropdowns set, the two teams   *)
(* differ and have a match against each other, so update_h2h_graph on them *)
(* returns neither 'select two different teams' nor 'no match history'.    *)
C26_SettledPairHasHistory ==
    (Quiescent /\ Team1 # NoValue /\ Team2 # NoValue) =>
        /\ Team1 # Team2
        /\ \E i \in 1..Len(df) : {df[i].HomeTeam, df[i].AwayTeam} = {Team1, Team2}
        /\ H2HResult(df, Team1, Team2).kind \notin {"select_two", "no_history"}

(* The user has selected a second team that the first never met, and     *)
(* set_team1_options has replaced the first team by an opponent of it.     *)
C26_Witness ==
    /\ Quiescent
    /\ Team2 = "Draw" /\ Team1 = "B"
    /\ ~\E i \in 1..Len(df) : {df[i].HomeTeam, df[i].AwayTeam} = {Brazil, "Draw"}
    /\ H2HResult(df, Team1, Team2).kind = "ok"

-----------------------------------------------------------------------------
(* C27: in a quiescent state the value of each of the five dropdowns is    *)
(* empty or one of the dropdown's current options.                         *)
C27_ValuesAmongOptions ==
    Quiescent =>
        \A id \in Dropdowns : value[id] = NoValue \/ value[id] \in Range(options[id])

(* A tournament selection has narrowed the options of both country         *)
(* dropdowns and a sync callback has written the value of one of them.     *)
C27_Witness ==
    /\ Quiescent
    /\ V2 \in Tournaments
    /\ Len(options[CountryDropdownV1]) < Len(all_teams)
    /\ V3 = V1 /\ V3 \in Teams
    /\ Team1 = V1

-----------------------------------------------------------------------------
(* C24: the values a cascade settles on do not depend on the order of the  *)
(* callbacks or on when a callback's State arguments are read.  When the   *)
(* user selects a tournament in which neither the team of                  *)
(* country-dropdown-v1 nor the team of country-dropdown-v3 took part, the  *)
(* cascade settles with country-dropdown-v3 on the value it has when       *)
(* update_country_dropdown_v1_options, update_country_dropdown_v3_options  *)
(* and sync_v3_from_v1 run one after the other: the first team of the      *)
(* tournament, which the first callback puts into country-dropdown-v1 and  *)
(* the third copies.                                                       *)
InvalidatesBothCountries ==
    /\ Changed = TournamentDropdown
    /\ Selected \in Tournaments
    /\ before[CountryDropdownV1] \in Teams
    /\ before[CountryDropdownV3] \in Teams
    /\ before[CountryDropdownV1] \notin Range(TeamsForTournament(df, all_teams, Selected))
    /\ before[CountryDropdownV3] \notin Range(TeamsForTournament(df, all_teams, Selected))

C24_SameV3InEveryOrder ==
    [][(Settles /\ InvalidatesBothCountries) =>
          value'[CountryDropdownV3] =
              FirstOrNone(TeamsForTournament(df, all_teams, Selected))]_vars

(* The case of C24 with the copied team in country-dropdown-v3. *)
C24_Sequential ==
    /\ LastAnswerIdle
    /\ InvalidatesBothCountries
    /\ V3 = FirstOrNone(TeamsForTournament(df, all_teams, Selected))

-----------------------------------------------------------------------------
(* C23: with a callback requested only when the value of its Input has     *)
(* changed, the cascade of a user's selection is finite: the dropdowns     *)
(* always come to a state without a pending or unanswered callback.        *)
C23_CascadeSettles == (phase = "serving") ~> Quiescent

====
